---- MODULE Spec2Model ----
(***************************************************************************)
(* Model of the regex find/replace plugin of src/src/main.ts: the          *)
(* persisted settings (saved expressions and groups, toggles), the host    *)
(* editor buffer and selection, the find/replace dialog with its live     *)
(* preview, and the plugin's transform handlers.                           *)
(*                                                                         *)
(* Text is a sequence of one-character strings.  Offsets are 0-based as   *)
(* in the source; the character at offset i is t[i + 1].                   *)
(***************************************************************************)
EXTENDS Integers, Sequences, FiniteSets, TLC

(***************************************************************************)
(* Bounds of the model.                                                    *)
(***************************************************************************)
\* longest editor buffer the handlers may produce
MaxLen == 7
\* most saved expressions in the store
MaxExprs == 2
\* most saved groups in the store
MaxGroups == 2

(***************************************************************************)
(* Text helpers.                                                           *)
(***************************************************************************)
Min(a, b) == IF a <= b THEN a ELSE b

\* t.substring(from, to) with 0-based half-open offsets
Slice(t, from, to) == SubSeq(t, from + 1, to)

\* String.prototype.toLowerCase on the characters the model uses, which is how
\* the "i" flag canonicalizes both sides of a character comparison
Lower(c) ==
    CASE c = "F" -> "f"
      [] c = "O" -> "o"
      [] c = "A" -> "a"
      [] c = "B" -> "b"
      [] c = "X" -> "x"
      [] c = "R" -> "r"
      [] c = "Z" -> "z"
      [] c = "N" -> "n"
      [] c = "T" -> "t"
      [] OTHER -> c

\* Array.prototype.includes
Includes(s, x) == \E i \in 1..Len(s) : s[i] = x

\* Array.prototype.findIndex(x => x.name === name): the first 1-based index,
\* 0 when absent (-1 in JS)
FindIndexByName(s, name) ==
    IF \E i \in 1..Len(s) : s[i].name = name
    THEN CHOOSE i \in 1..Len(s) :
            s[i].name = name /\ \A j \in 1..(i - 1) : s[j].name # name
    ELSE 0

\* Array.prototype.filter(x => x.name !== name)
FilterOutName(s, name) ==
    LET keep(x) == x.name # name IN SelectSeq(s, keep)

\* String.prototype.trim on the model's whitespace
RECURSIVE TrimLeft(_)
TrimLeft(t) ==
    IF t # <<>> /\ Head(t) \in {" ", "\n", "\t"} THEN TrimLeft(Tail(t)) ELSE t

RECURSIVE TrimRight(_)
TrimRight(t) ==
    IF t # <<>> /\ t[Len(t)] \in {" ", "\n", "\t"}
    THEN TrimRight(SubSeq(t, 1, Len(t) - 1)) ELSE t

\* a variant of Trim that leaves the text as typed
TrimNothing(t) == t

Trim(t) == TrimRight(TrimLeft(t))

(***************************************************************************)
(* The native RegExp the plugin delegates to, on the pattern syntax the    *)
(* texts of the model can spell: literal characters, "." (any character   *)
(* but a line terminator), the assertions "^", "$", "\b" and "\B", the     *)
(* escapes "\n", "\t", "\r", "\f" and the identity escapes, a postfix "*"  *)
(* on a single character atom, and capture groups "(" ")" that are not     *)
(* themselves quantified.                                                  *)
(***************************************************************************)
RegexFlagChars == {"d", "g", "i", "m", "s", "u", "v", "y"}

\* new RegExp(_, flags) rejects an unknown or a repeated flag
FlagsValid(flags) ==
    /\ \A i \in 1..Len(flags) : flags[i] \in RegexFlagChars
    /\ \A i, j \in 1..Len(flags) : flags[i] = flags[j] => i = j
    /\ ~(Includes(flags, "u") /\ Includes(flags, "v"))

\* the characters "." does not match and "^", "$" look at under the m flag
LineTerminators == {"\n", "\r"}

\* the characters \b and \B count as part of a word
WordChars ==
    {"a", "b", "c", "d", "e", "f", "g", "h", "i", "j", "k", "l", "m", "n", "o",
     "p", "q", "r", "s", "t", "u", "v", "w", "x", "y", "z",
     "A", "B", "C", "D", "E", "F", "G", "H", "I", "J", "K", "L", "M", "N", "O",
     "P", "Q", "R", "S", "T", "U", "V", "W", "X", "Y", "Z",
     "0", "1", "2", "3", "4", "5", "6", "7", "8", "9", "_"}

\* the token an unescaped pattern character stands for
PlainToken(c) ==
    CASE c = "." -> [kind |-> "any", ch |-> c]
      [] c = "$" -> [kind |-> "eol", ch |-> c]
      [] c = "^" -> [kind |-> "bol", ch |-> c]
      [] c = "(" -> [kind |-> "open", ch |-> c]
      [] c = ")" -> [kind |-> "close", ch |-> c]
      [] c = "*" -> [kind |-> "star", ch |-> c]
      [] OTHER -> [kind |-> "char", ch |-> c]

\* the token a backslash followed by c stands for: a control character, a
\* word-boundary assertion, or c itself (identity escape); "\0" is the NUL
\* character, which no text of the model holds
EscapeToken(c) ==
    CASE c = "n" -> [kind |-> "char", ch |-> "\n"]
      [] c = "t" -> [kind |-> "char", ch |-> "\t"]
      [] c = "r" -> [kind |-> "char", ch |-> "\r"]
      [] c = "f" -> [kind |-> "char", ch |-> "\f"]
      [] c = "0" -> [kind |-> "char", ch |-> "NUL"]
      [] c = "b" -> [kind |-> "wordb", ch |-> c]
      [] c = "B" -> [kind |-> "nwordb", ch |-> c]
      [] OTHER -> [kind |-> "char", ch |-> c]

\* the pattern's tokens; a backslash that ends the pattern is no token
RECURSIVE Tokens(_)
Tokens(p) ==
    IF p = <<>> THEN <<>>
    ELSE IF Head(p) = "\\"
         THEN IF Len(p) = 1 THEN <<[kind |-> "bad", ch |-> "\\"]>>
              ELSE <<EscapeToken(p[2])>> \o Tokens(Tail(Tail(p)))
         ELSE <<PlainToken(Head(p))>> \o Tokens(Tail(p))

\* nesting depth of groups after the first k tokens
RECURSIVE Depth(_, _)
Depth(toks, k) ==
    IF k = 0 THEN 0
    ELSE Depth(toks, k - 1)
         + (IF toks[k].kind = "open" THEN 1
            ELSE IF toks[k].kind = "close" THEN -1 ELSE 0)

\* new RegExp(pattern, _) rejects a trailing backslash, unbalanced groups and
\* a "*" with nothing to repeat: at the start, or after "(", "*" or an assertion
TokensValid(toks) ==
    /\ \A k \in 1..Len(toks) : toks[k].kind # "bad"
    /\ \A k \in 1..Len(toks) : Depth(toks, k) >= 0
    /\ Depth(toks, Len(toks)) = 0
    /\ \A k \in 1..Len(toks) :
          toks[k].kind = "star" =>
              (k > 1 /\ toks[k - 1].kind \in {"char", "any", "close"})

PatternValid(p) == TokensValid(Tokens(p))

\* whether new RegExp(pattern, flags) returns instead of throwing SyntaxError
Compiles(p, flags) == PatternValid(p) /\ FlagsValid(flags)

\* the number of capture groups of a pattern
GroupsOf(toks) == Cardinality({k \in 1..Len(toks) : toks[k].kind = "open"})

NumGroups(p) == GroupsOf(Tokens(p))

\* the tokens as a sequence of [kind, ch, star] items, groups being transparent
RECURSIVE ItemsOf(_)
ItemsOf(toks) ==
    IF toks = <<>> THEN <<>>
    ELSE IF Head(toks).kind \in {"open", "close"} THEN ItemsOf(Tail(toks))
    ELSE IF Len(toks) >= 2 /\ toks[2].kind = "star"
         THEN <<[kind |-> Head(toks).kind, ch |-> Head(toks).ch, star |-> TRUE]>>
              \o ItemsOf(Tail(Tail(toks)))
         ELSE <<[kind |-> Head(toks).kind, ch |-> Head(toks).ch, star |-> FALSE]>>
              \o ItemsOf(Tail(toks))

Items(p) == ItemsOf(Tokens(p))

\* a compiled matcher: what new RegExp(pattern, flags) keeps
RegexOf(toks, flags) ==
    [items |-> ItemsOf(toks), groups |-> GroupsOf(toks),
     global |-> Includes(flags, "g"), ci |-> Includes(flags, "i"),
     multiline |-> Includes(flags, "m"), dotAll |-> Includes(flags, "s")]

Regex(p, flags) == RegexOf(Tokens(p), flags)

\* whether a character atom matches one character
AtomMatches(a, c, re) ==
    IF a.kind = "any" THEN re.dotAll \/ c \notin LineTerminators
    ELSE IF re.ci THEN Lower(a.ch) = Lower(c)
    ELSE a.ch = c

\* whether an assertion holds at offset pos
Holds(a, t, pos, re) ==
    LET wordBefore == pos > 0 /\ t[pos] \in WordChars
        wordAfter  == pos < Len(t) /\ t[pos + 1] \in WordChars
    IN  CASE a.kind = "eol" ->
                pos = Len(t) \/ (re.multiline /\ t[pos + 1] \in LineTerminators)
          [] a.kind = "bol" ->
                pos = 0 \/ (re.multiline /\ t[pos] \in LineTerminators)
          [] a.kind = "wordb" -> wordBefore # wordAfter
          [] a.kind = "nwordb" -> wordBefore = wordAfter

\* how many consecutive characters from offset pos the atom matches
RECURSIVE RunLength(_, _, _, _)
RunLength(t, pos, a, re) ==
    IF pos < Len(t) /\ AtomMatches(a, t[pos + 1], re)
    THEN 1 + RunLength(t, pos + 1, a, re)
    ELSE 0

\* the end offset of the match of items k.. anchored at offset pos, -1 when
\* there is none; a starred atom is greedy and backtracks
RECURSIVE MatchFrom(_, _, _, _)
RECURSIVE TryStar(_, _, _, _, _)
RECURSIVE StarTaken(_, _, _, _, _, _)
MatchFrom(t, pos, re, k) ==
    IF k > Len(re.items) THEN pos
    ELSE LET a == re.items[k]
         IN  IF a.kind \notin {"char", "any"}
             THEN IF Holds(a, t, pos, re) THEN MatchFrom(t, pos, re, k + 1) ELSE -1
             ELSE IF a.star
             THEN TryStar(t, pos, re, k, RunLength(t, pos, a, re))
             ELSE IF pos < Len(t) /\ AtomMatches(a, t[pos + 1], re)
                  THEN MatchFrom(t, pos + 1, re, k + 1)
                  ELSE -1

TryStar(t, pos, re, k, n) ==
    IF n < 0 THEN -1
    ELSE StarTaken(t, pos, re, k, n, MatchFrom(t, pos + n, re, k + 1))

\* the star having taken n characters and the rest having ended at r
StarTaken(t, pos, re, k, n, r) ==
    IF r >= 0 THEN r ELSE TryStar(t, pos, re, k, n - 1)

NoMatch == [index |-> -1, end |-> -1]

\* the leftmost match starting at an offset >= from
RECURSIVE Search(_, _, _)
RECURSIVE Tried(_, _, _, _)
Search(t, re, from) ==
    IF from > Len(t) THEN NoMatch
    ELSE Tried(t, re, from, MatchFrom(t, from, re, 1))

\* the attempt anchored at from having ended at e, or failed with e = -1
Tried(t, re, from, e) ==
    IF e >= 0 THEN [index |-> from, end |-> e]
    ELSE Search(t, re, from + 1)

\* RegExp.prototype.exec: a global matcher starts at lastIndex, any other at 0
Exec(t, re, lastIndex) == Search(t, re, IF re.global THEN lastIndex ELSE 0)

\* lastIndex after exec: the match's end for a global matcher (0 on failure),
\* untouched otherwise
LastIndexAfter(re, m, lastIndex) ==
    IF re.global THEN (IF m.index >= 0 THEN m.end ELSE 0) ELSE lastIndex

\* every match of a global matcher from offset from on, as String.prototype.match
\* and replace collect them: after an empty match the index advances by one
RECURSIVE AllMatches(_, _, _)
RECURSIVE Collected(_, _, _)
AllMatches(t, re, from) == Collected(t, re, Search(t, re, from))

\* the match m and the matches after it
Collected(t, re, m) ==
    IF m.index < 0 THEN <<>>
    ELSE <<m>> \o AllMatches(t, re, IF m.end = m.index THEN m.end + 1 ELSE m.end)

\* the matches String.prototype.replace substitutes: all of them for a global
\* matcher, the first one otherwise
Replaced(t, re) ==
    IF re.global THEN AllMatches(t, re, 0)
    ELSE LET m == Search(t, re, 0) IN IF m.index < 0 THEN <<>> ELSE <<m>>

\* text.match(re): the length of the returned array, 0 for null.  A global
\* matcher returns the matches; any other returns the first match followed
\* by its capture groups
MatchLength(t, re) ==
    IF re.global THEN Len(AllMatches(t, re, 0))
    ELSE IF Search(t, re, 0).index < 0 THEN 0 ELSE 1 + re.groups

\* GetSubstitution on the template tokens the model uses: "$$" is a dollar
\* sign, "$&" the matched text, any other character itself
RECURSIVE Substitute(_, _)
Substitute(tpl, matched) ==
    IF tpl = <<>> THEN <<>>
    ELSE IF Len(tpl) >= 2 /\ tpl[1] = "$" /\ tpl[2] = "$"
         THEN <<"$">> \o Substitute(Tail(Tail(tpl)), matched)
    ELSE IF Len(tpl) >= 2 /\ tpl[1] = "$" /\ tpl[2] = "&"
         THEN matched \o Substitute(Tail(Tail(tpl)), matched)
    ELSE <<Head(tpl)>> \o Substitute(Tail(tpl), matched)

\* the text rebuilt around the matches ms[k..], pos being the end of the
\* previous match
RECURSIVE Rebuild(_, _, _, _, _)
Rebuild(t, ms, k, pos, tpl) ==
    IF k > Len(ms) THEN Slice(t, pos, Len(t))
    ELSE Slice(t, pos, ms[k].index)
         \o Substitute(tpl, Slice(t, ms[k].index, ms[k].end))
         \o Rebuild(t, ms, k + 1, ms[k].end, tpl)

\* text.replace(re, replaceString)
RegexReplace(t, re, tpl) == Rebuild(t, Replaced(t, re), 1, 0, tpl)

\* String.prototype.split(sep) for a non-empty separator: the pieces between
\* the non-overlapping occurrences of sep, scanned left to right; cur is the
\* piece being collected
RECURSIVE SplitFrom(_, _, _, _)
SplitFrom(t, sep, pos, cur) ==
    IF pos + Len(sep) > Len(t) THEN <<cur \o Slice(t, pos, Len(t))>>
    ELSE IF Slice(t, pos, pos + Len(sep)) = sep
         THEN <<cur>> \o SplitFrom(t, sep, pos + Len(sep), <<>>)
         ELSE SplitFrom(t, sep, pos + 1, Append(cur, t[pos + 1]))

\* a variant of Split that cuts the text at the first occurrence only
SplitOnce(t, sep) ==
    IF \E p \in 0..(Len(t) - Len(sep)) : Slice(t, p, p + Len(sep)) = sep
    THEN LET p == CHOOSE q \in 0..(Len(t) - Len(sep)) :
                     /\ Slice(t, q, q + Len(sep)) = sep
                     /\ \A r \in 0..(q - 1) : Slice(t, r, r + Len(sep)) # sep
         IN  <<Slice(t, 0, p), Slice(t, p + Len(sep), Len(t))>>
    ELSE <<t>>

Split(t, sep) == SplitFrom(t, sep, 0, <<>>)

\* Array.prototype.join(glue)
RECURSIVE Join(_, _)
Join(pieces, glue) ==
    IF pieces = <<>> THEN <<>>
    ELSE IF Len(pieces) = 1 THEN pieces[1]
    ELSE pieces[1] \o glue \o Join(Tail(pieces), glue)

\* a variant of ExpandEscape that expands the first occurrence only
ExpandEscapeFirstOnly(tpl, letter, ch) ==
    IF \E i \in 1..(Len(tpl) - 1) : tpl[i] = "\\" /\ tpl[i + 1] = letter
    THEN LET i == CHOOSE j \in 1..(Len(tpl) - 1) :
                     /\ tpl[j] = "\\" /\ tpl[j + 1] = letter
                     /\ \A k \in 1..(j - 1) : ~(tpl[k] = "\\" /\ tpl[k + 1] = letter)
         IN  SubSeq(tpl, 1, i - 1) \o <<ch>> \o SubSeq(tpl, i + 2, Len(tpl))
    ELSE tpl

\* replaceString.replace(/\\n/gm, '\n') and replaceString.replace(/\\t/gm, '\t'):
\* every backslash followed by letter becomes the one character ch
RECURSIVE ExpandEscape(_, _, _)
ExpandEscape(tpl, letter, ch) ==
    IF tpl = <<>> THEN <<>>
    ELSE IF Len(tpl) >= 2 /\ tpl[1] = "\\" /\ tpl[2] = letter
         THEN <<ch>> \o ExpandEscape(Tail(Tail(tpl)), letter, ch)
         ELSE <<Head(tpl)>> \o ExpandEscape(Tail(tpl), letter, ch)

\* the replace string after the special sequences are processed: line breaks
\* first, tabs second
ResolveReplace(tpl, processLineBreak, processTab) ==
    LET a == IF processLineBreak THEN ExpandEscape(tpl, "n", "\n") ELSE tpl
    IN  IF processTab THEN ExpandEscape(a, "t", "\t") ELSE a

(***************************************************************************)
(* The preview's scan loop: while ((m = re.exec(targetText)) !== null).    *)
(* ScanFuel bounds the unrolling; a loop that is still matching when the   *)
(* fuel is spent is reported as diverged.                                  *)
(***************************************************************************)
ScanFuel == 9

\* a variant of ScanLoop that does not advance lastIndex after an empty match
\* the scan with the match m put before the rest of it
Visited(m, rest) == [matches |-> <<m>> \o rest.matches, diverged |-> rest.diverged]

RECURSIVE ScanLoopNoAdvance(_, _, _, _)
RECURSIVE ScanBodyNoAdvance(_, _, _, _, _)
ScanLoopNoAdvance(t, re, lastIndex, fuel) ==
    ScanBodyNoAdvance(t, re, lastIndex, fuel, Exec(t, re, lastIndex))

ScanBodyNoAdvance(t, re, lastIndex, fuel, m) ==
    IF m.index < 0 THEN [matches |-> <<>>, diverged |-> FALSE]
    ELSE IF fuel = 0 THEN [matches |-> <<>>, diverged |-> TRUE]
    ELSE Visited(m, ScanLoopNoAdvance(t, re, LastIndexAfter(re, m, lastIndex),
                                      fuel - 1))

RECURSIVE ScanLoop(_, _, _, _)
RECURSIVE ScanBody(_, _, _, _, _)
ScanLoop(t, re, lastIndex, fuel) ==
    ScanBody(t, re, lastIndex, fuel, Exec(t, re, lastIndex))

\* one pass of the loop body with the match m that exec returned
ScanBody(t, re, lastIndex, fuel, m) ==
    IF m.index < 0 THEN [matches |-> <<>>, diverged |-> FALSE]
    ELSE IF fuel = 0 THEN [matches |-> <<>>, diverged |-> TRUE]
    ELSE LET li  == LastIndexAfter(re, m, lastIndex)
             nxt == IF m.end = m.index THEN li + 1 ELSE li
         IN  Visited(m, ScanLoop(t, re, nxt, fuel - 1))

\* the ranges and list items the loop records: the matches with end > start,
\* shifted by the scope's start offset
RECURSIVE Recorded(_, _, _)
Recorded(t, ms, startOffset) ==
    IF ms = <<>> THEN <<>>
    ELSE LET m == Head(ms)
         IN  (IF m.end > m.index
              THEN <<[from |-> startOffset + m.index, to |-> startOffset + m.end,
                      text |-> Slice(t, m.index, m.end)]>>
              ELSE <<>>) \o Recorded(t, Tail(ms), startOffset)

(***************************************************************************)
(* Inputs: the texts the user types or has on disk.                        *)
(***************************************************************************)
foo == <<"f", "o", "o">>
bar == <<"b", "a", "r">>
baz == <<"b", "a", "z">>
gm == <<"g", "m">>

\* names, as typed (the save handlers trim them)
NameA == <<"A">>
NameB == <<"B">>
NameC == <<"C">>
NameG == <<"G">>
NameH == <<"H">>

\* what the user fills into the four fields of the save-expression dialog
ExprForms ==
    { [name |-> NameA, pattern |-> foo, flags |-> gm, replace |-> bar],
      [name |-> NameB, pattern |-> bar, flags |-> gm, replace |-> baz],
      [name |-> <<" ", "A", " ">>, pattern |-> <<"o", "*">>, flags |-> <<" ">>,
       replace |-> <<>>],
      [name |-> NameB, pattern |-> <<"(", "f", ")">>, flags |-> <<"i">>,
       replace |-> <<"0">>],
      [name |-> <<" ">>, pattern |-> foo, flags |-> gm, replace |-> bar],
      [name |-> NameC, pattern |-> <<"(">>, flags |-> gm, replace |-> bar],
      [name |-> NameC, pattern |-> foo, flags |-> <<"x">>, replace |-> bar] }

\* what the user types into the group dialog's name field
GroupNameInputs == {<<" ", "G">>, <<" ">>, <<>>}

\* what the user types into the find field of the find/replace dialog
FindInputs == {<<>>, foo, <<"o", "*">>, <<"(">>, <<"a", ".", "b">>}

\* what the user types into the replace field of the find/replace dialog
ReplaceInputs == {<<"X">>}

\* replace texts with the replacement patterns of String.prototype.replace
PatternTextInputs == {<<"$", "&">>}

\* longest replace text restored from the settings
MaxTemplate == 4

\* the replace texts over a backslash and the letters n and t
Templates ==
    UNION {[1..k -> {"\\", "n", "t"}] : k \in 0..MaxTemplate}

\* the buffers the editor may hold when the plugin starts
Documents == {foo, <<"a", ".", "b", " ", "a", ".", "b">>}

(***************************************************************************)
(* The settings data.json may hold when the plugin loads: none (a fresh    *)
(* install, DEFAULT_SETTINGS), or settings written earlier or by hand,     *)
(* which loadSettings merges over the defaults without validation.         *)
(***************************************************************************)
DEFAULT_SETTINGS ==
    [findText |-> <<>>, replaceText |-> <<>>, useRegEx |-> TRUE, selOnly |-> FALSE,
     caseInsensitive |-> FALSE, processLineBreak |-> FALSE, processTab |-> FALSE,
     prefillFind |-> FALSE, savedExpressions |-> <<>>, savedGroups |-> <<>>]

ExprTab == [name |-> NameA, pattern |-> foo, flags |-> gm, replace |-> <<"\\", "t">>]

ExprBad == [name |-> NameC, pattern |-> <<"(">>, flags |-> gm, replace |-> baz]

PersistedData ==
    { DEFAULT_SETTINGS,
      [DEFAULT_SETTINGS EXCEPT
         !.selOnly = TRUE, !.caseInsensitive = TRUE, !.processLineBreak = TRUE,
         !.processTab = TRUE, !.prefillFind = TRUE,
         !.savedExpressions = <<ExprTab, ExprBad>>,
         !.savedGroups = <<[name |-> NameG, items |-> <<NameA, NameC>>],
                           [name |-> NameH, items |-> <<NameA>>]>>],
      [DEFAULT_SETTINGS EXCEPT
         !.savedGroups = <<[name |-> NameH, items |-> <<>>]>>] }

(***************************************************************************)
(* State.                                                                  *)
(***************************************************************************)
\* a view the plugin has not touched: the field is not in its configuration,
\* no ranges were dispatched, Decoration.none
NoView == [attached |-> FALSE, appended |-> 0, dispatched |-> <<>>,
           decorations |-> <<>>]

VARIABLES
    settings,   \* the plugin's settings object, persisted by saveSettings/saveData
    doc,        \* the host editor's buffer
    sel,        \* the host editor's selection, [from, to) offsets into doc
    dlg,        \* whether the find/replace dialog is open
    pv,         \* the dialog's preview panel: the count line and the match list
    view,       \* the editor view: whether the highlight field is attached, the
                \* ranges last dispatched to it, the decorations it holds
    rows,       \* the preset rows of the settings tab, as display() drew them
    last        \* the handler that ran last and what it did

vars == <<settings, doc, sel, dlg, pv, view, rows, last>>

(***************************************************************************)
(* The host editor.                                                        *)
(***************************************************************************)
\* editor.getSelection()
GetSelection(d, s) == Slice(d, s.from, s.to)

\* editor.replaceSelection(t): the buffer, and the cursor left after t
ReplaceSelectionDoc(d, s, t) == Slice(d, 0, s.from) \o t \o Slice(d, s.to, Len(d))

ReplaceSelectionSel(s, t) == [from |-> s.from + Len(t), to |-> s.from + Len(t)]

\* the selection the host keeps after editor.setValue(t)
SetValueSel == [from |-> 0, to |-> 0]

\* the selections the user makes in a buffer
Selections(d) ==
    { [from |-> 0, to |-> 0], [from |-> Min(1, Len(d)), to |-> Len(d)] }

(***************************************************************************)
(* What a handler did, kept for the properties.                            *)
(***************************************************************************)
\* no dialog component was read
NoFields == [find |-> <<>>, useRegex |-> FALSE, selOnly |-> FALSE]

NoRun ==
    [op |-> "none", status |-> "none", count |-> 0, reads |-> 0, writes |-> 0,
     target |-> "none", exprs |-> <<>>, items |-> <<>>, fields |-> NoFields,
     docBefore |-> <<>>, selBefore |-> [from |-> 0, to |-> 0], selOnly |-> FALSE]

\* a handler's record: its outcome (status, the count it reports), the reads
\* and writes it issued to the editor and the write's target, the expressions
\* it was given, the buffer and selection it found, the mode it worked in
Ran(op, status, count, reads, writes, target, exprs, selOnly) ==
    [op |-> op, status |-> status, count |-> count, reads |-> reads,
     writes |-> writes, target |-> target, exprs |-> exprs, items |-> <<>>,
     fields |-> NoFields, docBefore |-> doc, selBefore |-> sel, selOnly |-> selOnly]

\* the record of a handler that was handed a group's items
WithItems(out, items) == [out EXCEPT !.run.items = items]

\* the record of a handler that read the dialog's components
WithFields(out, d) == [out EXCEPT !.run.fields = d]

PvEmpty == [info |-> 0, list |-> <<>>, more |-> 0]

Init ==
    /\ settings \in PersistedData
    /\ doc \in Documents
    /\ sel = [from |-> 0, to |-> 0]
    /\ dlg = FALSE
    /\ pv = PvEmpty
    /\ view = NoView
    /\ rows = settings.savedGroups
    /\ last = NoRun

(***************************************************************************)
(* The plugin: flags, highlights, the expression and group store.          *)
(***************************************************************************)
getRegexFlags == IF settings.caseInsensitive THEN gm \o <<"i">> ELSE gm

\* a variant of ensureHighlightAttached that appends the field at every call
ensureHighlightAlwaysAppends(v) ==
    [v EXCEPT !.attached = TRUE, !.appended = @ + 1]

\* ensureHighlightAttached: the field is appended to the view's configuration
\* and the view recorded, unless the view is recorded already
ensureHighlightAttached(v) ==
    IF v.attached THEN v ELSE [v EXCEPT !.attached = TRUE, !.appended = @ + 1]

\* detachHighlight: the view's configuration is reset, which drops what was
\* appended to it, and the view's record is deleted
detachHighlight(v) == NoView

\* highlightField.update for a transaction that carries the highlight effect
\* with the given ranges: the method looks the effect type up on this, which
\* is the state field and not the plugin, so it recognises no effect and
\* returns the decorations it was given
highlightFieldUpdate(deco, ranges) == deco

\* setHighlights(ranges): attach, then dispatch the ranges to the field
setHighlights(v, ranges) ==
    [ensureHighlightAttached(v) EXCEPT
       !.dispatched = ranges,
       !.decorations = highlightFieldUpdate(@, ranges)]

\* clearHighlights(): attach, then dispatch no ranges
clearHighlights(v) ==
    [ensureHighlightAttached(v) EXCEPT
       !.dispatched = <<>>,
       !.decorations = highlightFieldUpdate(@, <<>>)]

\* a variant of saveOrUpdateExpression that always pushes
saveExpressionAlwaysPushes(exprs, expr) == Append(exprs, expr)

\* saveOrUpdateExpression: replace at the index of the name, else push
saveOrUpdateExpression(exprs, expr) ==
    LET idx == FindIndexByName(exprs, expr.name)
    IN  IF idx > 0 THEN [exprs EXCEPT ![idx] = expr] ELSE Append(exprs, expr)

deleteExpressionByName(exprs, name) == FilterOutName(exprs, name)

\* saveOrUpdateGroup: replace at the index of the name, else push
saveOrUpdateGroup(groups, group) ==
    LET idx == FindIndexByName(groups, group.name)
    IN  IF idx > 0 THEN [groups EXCEPT ![idx] = group] ELSE Append(groups, group)

deleteGroupByName(groups, name) == FilterOutName(groups, name)

\* savedExpressions.filter(e => names.includes(e.name)): the store's entries
\* whose name is listed, in the store's order
ExprsNamed(exprs, names) ==
    LET listed(e) == Includes(names, e.name) IN SelectSeq(exprs, listed)

\* Object.keys(selected).filter(n => selected[n]): the ticked names in the
\* order the dialog inserted them, which is the store's order
TickedNames(exprs, ticked) ==
    LET isTicked(e) == e.name \in ticked
        names == SelectSeq(exprs, isTicked)
    IN  [i \in 1..Len(names) |-> names[i].name]

(***************************************************************************)
(* The transform handlers.  Each yields the buffer and selection it        *)
(* leaves and the record of what it did.                                   *)
(***************************************************************************)
\* a handler that leaves the editor alone
Untouched(run) == [doc |-> doc, sel |-> sel, run |-> run]

\* the write of a result to the scope: replaceSelection or setValue
WriteBack(selOnly, text, run) ==
    IF selOnly
    THEN [doc |-> ReplaceSelectionDoc(doc, sel, text),
          sel |-> ReplaceSelectionSel(sel, text), run |-> run]
    ELSE [doc |-> text, sel |-> SetValueSel, run |-> run]

\* the scope's text: editor.getSelection() or editor.getValue()
ScopeText(selOnly) == IF selOnly THEN GetSelection(doc, sel) ELSE doc

ScopeName(selOnly) == IF selOnly THEN "sel" ELSE "doc"

\* a variant of applyExpression that writes the text back without a match
applyExpressionAlwaysWrites(expr) ==
    LET so == settings.selOnly
    IN  IF ~Compiles(expr.pattern, expr.flags)
        THEN Untouched(Ran("applyExpression", "threw", 0, 0, 0, "none", <<expr>>, so))
        ELSE LET searchRegex   == Regex(expr.pattern, expr.flags)
                 replaceString == ResolveReplace(expr.replace,
                                     settings.processLineBreak, settings.processTab)
                 text          == ScopeText(so)
                 rresult       == MatchLength(text, searchRegex)
             IN  WriteBack(so, RegexReplace(text, searchRegex, replaceString),
                    Ran("applyExpression", IF rresult > 0 THEN "applied" ELSE "nomatch",
                        rresult, 1, 1, ScopeName(so), <<expr>>, so))

\* applyExpression after new RegExp returned searchRegex and text.match gave
\* rresult entries
applyExpressionMatched(expr, searchRegex, rresult) ==
    LET so            == settings.selOnly
        replaceString == ResolveReplace(expr.replace,
                            settings.processLineBreak, settings.processTab)
    IN  IF rresult > 0
        THEN WriteBack(so, RegexReplace(ScopeText(so), searchRegex, replaceString),
               Ran("applyExpression", "applied", rresult, 1, 1,
                   ScopeName(so), <<expr>>, so))
        ELSE Untouched(Ran("applyExpression", "nomatch", 0, 1, 0, "none",
                           <<expr>>, so))

applyExpression(expr) ==
    IF ~Compiles(expr.pattern, expr.flags)
    THEN Untouched(Ran("applyExpression", "threw", 0, 0, 0, "none", <<expr>>,
                       settings.selOnly))
    ELSE applyExpressionMatched(expr, Regex(expr.pattern, expr.flags),
             MatchLength(ScopeText(settings.selOnly),
                         Regex(expr.pattern, expr.flags)))

\* the loop of applyBatch over exprs[k..]: the text and total it ends with,
\* or that new RegExp threw at a member
RECURSIVE applyBatchLoop(_, _, _, _)
RECURSIVE applyBatchMatched(_, _, _, _, _, _)
applyBatchLoop(exprs, k, text, total) ==
    IF k > Len(exprs) THEN [threw |-> FALSE, text |-> text, total |-> total]
    ELSE IF ~Compiles(exprs[k].pattern, exprs[k].flags)
         THEN [threw |-> TRUE, text |-> text, total |-> total]
    ELSE applyBatchMatched(exprs, k, text, total,
             Regex(exprs[k].pattern, exprs[k].flags),
             MatchLength(text, Regex(exprs[k].pattern, exprs[k].flags)))

\* the loop body for exprs[k] after new RegExp returned searchRegex and
\* text.match gave hits entries
applyBatchMatched(exprs, k, text, total, searchRegex, hits) ==
    LET replaceString == ResolveReplace(exprs[k].replace,
                            settings.processLineBreak, settings.processTab)
    IN  IF hits > 0
        THEN applyBatchLoop(exprs, k + 1,
                RegexReplace(text, searchRegex, replaceString), total + hits)
        ELSE applyBatchLoop(exprs, k + 1, text, total)

\* a variant of applyBatch that writes what the loop had computed when a
\* member failed to compile
applyBatchWritesPartial(op, exprs) ==
    LET so == settings.selOnly
    IN  IF Len(exprs) = 0
        THEN Untouched(Ran(op, "none-selected", 0, 0, 0, "none", exprs, so))
        ELSE LET r == applyBatchLoop(exprs, 1, ScopeText(so), 0)
             IN  WriteBack(so, r.text,
                    Ran(op, IF r.threw THEN "threw" ELSE "applied", r.total, 1, 1,
                        ScopeName(so), exprs, so))

\* applyBatch after its loop ended as r says
applyBatchLooped(op, exprs, r) ==
    LET so == settings.selOnly
    IN  IF r.threw
        THEN Untouched(Ran(op, "threw", 0, 1, 0, "none", exprs, so))
        ELSE WriteBack(so, r.text,
               Ran(op, "applied", r.total, 1, 1, ScopeName(so), exprs, so))

applyBatch(op, exprs) ==
    IF Len(exprs) = 0
    THEN Untouched(Ran(op, "none-selected", 0, 0, 0, "none", exprs,
                       settings.selOnly))
    ELSE applyBatchLooped(op, exprs,
             applyBatchLoop(exprs, 1, ScopeText(settings.selOnly), 0))

\* a variant of ResolveGroup that resolves a group with a missing name to nothing
ResolveGroupAllOrNothing(group) ==
    IF \A i \in 1..Len(group.items) :
          FindIndexByName(settings.savedExpressions, group.items[i]) > 0
    THEN ExprsNamed(settings.savedExpressions, group.items)
    ELSE <<>>

\* the expressions applyGroup resolves a group to
ResolveGroup(group) == ExprsNamed(settings.savedExpressions, group.items)

\* a variant of applyGroup that tests the group's items, not the resolved list
applyGroupTestsItems(group) ==
    LET exprs == ResolveGroup(group)
    IN  WithItems(IF Len(group.items) = 0
                  THEN Untouched(Ran("applyGroup", "empty-group", 0, 0, 0, "none",
                                     exprs, settings.selOnly))
                  ELSE applyBatch("applyGroup", exprs),
                  group.items)

applyGroup(group) ==
    LET exprs == ResolveGroup(group)
    IN  WithItems(IF Len(exprs) = 0
                  THEN Untouched(Ran("applyGroup", "empty-group", 0, 0, 0, "none",
                                     exprs, settings.selOnly))
                  ELSE applyBatch("applyGroup", exprs),
                  group.items)

(***************************************************************************)
(* The find/replace dialog.  Its find field and its two toggles are host   *)
(* components: a handler reads their current values, which are whatever    *)
(* the user has typed or flipped since onOpen filled them in.              *)
(***************************************************************************)
\* the most list entries the preview renders
PreviewLimit == 200

\* the flags onOpen computes for the dialog's matcher
regexFlags == IF settings.caseInsensitive THEN gm \o <<"i">> ELSE gm

\* onOpen's noSelection; the selection toggle is hidden and off when it holds
noSelection == GetSelection(doc, sel) = <<>>

\* the values onOpen leaves in the components: the toggles restored from the
\* settings, the find field prefilled from a one-line selection or restored
OpenedFields ==
    LET selected == GetSelection(doc, sel)
        prefill  == settings.prefillFind /\ ~Includes(selected, "\n") /\ ~noSelection
    IN  [find |-> IF prefill THEN selected ELSE settings.findText,
         useRegex |-> settings.useRegEx,
         selOnly |-> IF prefill \/ noSelection THEN FALSE ELSE settings.selOnly]

\* the values a handler may read from the components: the find field as
\* onOpen filled it or as typed since, the toggles as flipped
Fields ==
    { [find |-> f, useRegex |-> r, selOnly |-> s] :
        f \in FindInputs \cup {OpenedFields.find}, r \in BOOLEAN,
        s \in IF noSelection THEN {FALSE} ELSE BOOLEAN }

\* the panel updatePreview renders for the recorded matches: the count line,
\* the first PreviewLimit list entries, the number of entries left out
PreviewPanel(items) ==
    [info |-> Len(items),
     list |-> SubSeq(items, 1, Min(Len(items), PreviewLimit)),
     more |-> IF Len(items) > PreviewLimit THEN Len(items) - PreviewLimit ELSE 0]

\* the ranges of the recorded items
RangesOf(items) ==
    [i \in 1..Len(items) |-> [from |-> items[i].from, to |-> items[i].to]]

\* updatePreview after its loop recorded items out of count matches: the
\* count line, the dispatched ranges, the list
updatePreviewRendered(d, items, count) ==
    [pv |-> PreviewPanel(items),
     view |-> setHighlights(view, RangesOf(items)),
     run |-> Ran("updatePreview", "shown", count, 1, 0, "none", <<>>, d.selOnly)]

\* updatePreview after its loop visited the matches ms of targetText
updatePreviewScanned(d, targetText, startOffset, ms) ==
    updatePreviewRendered(d, Recorded(targetText, ms, startOffset), Len(ms))

\* a variant of updatePreview that lets the failure of new RegExp escape
updatePreviewUncaught(d) ==
    IF ~d.useRegex \/ d.find = <<>>
    THEN [pv |-> PvEmpty, view |-> clearHighlights(view),
          run |-> Ran("updatePreview", "cleared", 0, 0, 0, "none", <<>>, d.selOnly)]
    ELSE LET targetText  == ScopeText(d.selOnly)
             startOffset == IF d.selOnly THEN sel.from ELSE 0
         IN  IF ~Compiles(d.find, regexFlags)
             THEN [pv |-> pv, view |-> view,
                   run |-> Ran("updatePreview", "threw", 0, 1, 0, "none", <<>>,
                               d.selOnly)]
             ELSE updatePreviewScanned(d, targetText, startOffset,
                      ScanLoop(targetText, Regex(d.find, regexFlags), 0,
                               ScanFuel).matches)

\* updatePreview with the component values d: the panel, the view, the record
updatePreview(d) ==
    IF ~d.useRegex \/ d.find = <<>>
    THEN [pv |-> PvEmpty, view |-> clearHighlights(view),
          run |-> Ran("updatePreview", "cleared", 0, 0, 0, "none", <<>>, d.selOnly)]
    ELSE LET targetText  == ScopeText(d.selOnly)
             startOffset == IF d.selOnly THEN sel.from ELSE 0
         IN  IF ~Compiles(d.find, regexFlags)
             THEN [pv |-> [info |-> -1, list |-> <<>>, more |-> 0],
                   view |-> clearHighlights(view),
                   run |-> Ran("updatePreview", "invalid", 0, 1, 0, "none", <<>>,
                               d.selOnly)]
             ELSE updatePreviewScanned(d, targetText, startOffset,
                      ScanLoop(targetText, Regex(d.find, regexFlags), 0,
                               ScanFuel).matches)

\* the regex branch after new RegExp returned searchRegex and text.match gave
\* rresult entries
SubmitMatched(d, replaceString, text, reads, searchRegex, rresult) ==
    IF rresult > 0
    THEN WriteBack(d.selOnly, RegexReplace(text, searchRegex, replaceString),
           Ran("submit", "replaced", rresult, reads, 1, ScopeName(d.selOnly),
               <<>>, d.selOnly))
    ELSE Untouched(Ran("submit", "nomatch", 0, reads, 0, "none", <<>>, d.selOnly))

\* the literal branch after text.split(searchString) gave pieces
SubmitSplit(d, replaceString, reads, pieces) ==
    WriteBack(d.selOnly, Join(pieces, replaceString),
      Ran("submit", "replaced", Len(pieces) - 1, reads, 1, ScopeName(d.selOnly),
          <<>>, d.selOnly))

\* the submit handler's replace pass, after the empty-find check: what it
\* leaves in the editor and its record
SubmitReplace(d, replaceString) ==
    LET selectedText == GetSelection(doc, sel)
        reads        == IF d.selOnly THEN 1 ELSE 2
        text         == IF d.selOnly THEN selectedText ELSE doc
    IN  IF d.useRegex
        THEN IF ~Compiles(d.find, regexFlags)
             THEN Untouched(Ran("submit", "threw", 0, 1, 0, "none", <<>>, d.selOnly))
             ELSE SubmitMatched(d, replaceString, text, reads,
                      Regex(d.find, regexFlags),
                      MatchLength(text, Regex(d.find, regexFlags)))
        ELSE SubmitSplit(d, replaceString, reads, Split(text, d.find))

(***************************************************************************)
(* Actions: one per command, button or field handler.                      *)
(***************************************************************************)
\* the user selects a range in the editor
Select ==
    /\ ~dlg
    /\ \E s \in Selections(doc) : sel' = s
    /\ last' = Ran("select", "none", 0, 0, 0, "none", <<>>, settings.selOnly)
    /\ rows' = settings.savedGroups
    /\ UNCHANGED <<settings, doc, dlg, pv, view>>

\* the editor is left as a handler's outcome says, within the buffer bound
Leaves(out) ==
    /\ Len(out.doc) <= MaxLen
    /\ doc' = out.doc
    /\ sel' = out.sel
    /\ last' = out.run

\* command "run saved expression": the chosen expression is applied
RunSavedExpression ==
    /\ ~dlg
    /\ \E i \in 1..Len(settings.savedExpressions) :
          Leaves(applyExpression(settings.savedExpressions[i]))
    /\ rows' = settings.savedGroups
    /\ UNCHANGED <<settings, dlg, pv, view>>

\* batch dialog, Run: the ticked expressions are applied
RunBatch ==
    /\ ~dlg
    /\ settings.savedExpressions # <<>>
    /\ \E ticked \in SUBSET {settings.savedExpressions[i].name :
                                i \in 1..Len(settings.savedExpressions)} :
          Leaves(applyBatch("applyBatch",
                   ExprsNamed(settings.savedExpressions,
                              TickedNames(settings.savedExpressions, ticked))))
    /\ rows' = settings.savedGroups
    /\ UNCHANGED <<settings, dlg, pv, view>>

\* command "run preset": a preset of the store is applied; or the Run button
\* of a row of the settings tab: the preset the row was drawn for is applied
RunSavedGroup ==
    /\ ~dlg
    /\ \/ /\ \E i \in 1..Len(settings.savedGroups) :
                Leaves(applyGroup(settings.savedGroups[i]))
          /\ rows' = settings.savedGroups
       \/ /\ \E i \in 1..Len(rows) : Leaves(applyGroup(rows[i]))
          /\ rows' = rows
    /\ UNCHANGED <<settings, dlg, pv, view>>

\* save-expression dialog, Save.  The dialog is opened by the command, or by
\* the settings tab, which runs display() after a save and keeps its rows
\* after a rejection
SaveExpression ==
    /\ ~dlg
    /\ \E form \in ExprForms :
          LET name  == Trim(form.name)
              flags == IF Trim(form.flags) = <<>> THEN gm ELSE Trim(form.flags)
              expr  == [name |-> name, pattern |-> form.pattern, flags |-> flags,
                        replace |-> form.replace]
          IN  IF name = <<>>
              THEN /\ last' = Ran("saveExpression", "name-required", 0, 0, 0, "none",
                                  <<>>, settings.selOnly)
                   /\ rows' \in {rows, settings.savedGroups}
                   /\ UNCHANGED settings
              ELSE IF ~Compiles(form.pattern, flags)
              THEN /\ last' = Ran("saveExpression", "invalid", 0, 0, 0, "none",
                                  <<>>, settings.selOnly)
                   /\ rows' \in {rows, settings.savedGroups}
                   /\ UNCHANGED settings
              ELSE /\ Len(saveOrUpdateExpression(settings.savedExpressions, expr))
                        <= MaxExprs
                   /\ settings' = [settings EXCEPT !.savedExpressions =
                                     saveOrUpdateExpression(@, expr)]
                   /\ rows' = settings.savedGroups
                   /\ last' = Ran("saveExpression", "saved", 0, 0, 0, "none",
                                  <<expr>>, settings.selOnly)
    /\ UNCHANGED <<doc, sel, dlg, pv, view>>

\* a variant of DeleteExpression that also takes the name out of every group
DeleteExpressionCascading ==
    /\ ~dlg
    /\ \E i \in 1..Len(settings.savedExpressions) :
          LET name     == settings.savedExpressions[i].name
              other(n) == n # name
          IN  /\ settings' = [settings EXCEPT
                    !.savedExpressions = deleteExpressionByName(@, name),
                    !.savedGroups = [k \in 1..Len(@) |->
                                        [@[k] EXCEPT !.items = SelectSeq(@, other)]]]
              /\ rows' = settings'.savedGroups
              /\ last' = Ran("deleteExpression", "deleted", 0, 0, 0, "none",
                             <<settings.savedExpressions[i]>>, settings.selOnly)
    /\ UNCHANGED <<doc, sel, dlg, pv, view>>

\* settings tab, an expression's Delete button, which ends with display()
DeleteExpression ==
    /\ ~dlg
    /\ \E i \in 1..Len(settings.savedExpressions) :
          /\ settings' = [settings EXCEPT !.savedExpressions =
                            deleteExpressionByName(@, settings.savedExpressions[i].name)]
          /\ rows' = settings.savedGroups
          /\ last' = Ran("deleteExpression", "deleted", 0, 0, 0, "none",
                         <<settings.savedExpressions[i]>>, settings.selOnly)
    /\ UNCHANGED <<doc, sel, dlg, pv, view>>

\* what opens the save-preset dialog: the batch dialog's save button, the
\* Edit button of a row of the settings tab, the tab's Add Preset button
GroupOpeners ==
    (IF settings.savedExpressions # <<>> THEN {"batch"} ELSE {})
    \cup (IF rows # <<>> THEN {"edit"} ELSE {})
    \cup {"add"}

\* the rows after the save-preset dialog rejected its input: the tab keeps
\* the rows it drew, the batch dialog is outside the tab
RowsAfterRejection(opener) ==
    IF opener = "batch" THEN settings.savedGroups ELSE rows

\* the rows after the save-preset dialog saved: only the dialog a row's Edit
\* button opened runs display(), after Add Preset the tab keeps the rows it had
RowsAfterSave(opener, groups) == IF opener = "add" THEN rows ELSE groups

\* save-preset dialog, Save
SaveGroup ==
    /\ ~dlg
    /\ \E typed \in GroupNameInputs :
          IF Trim(typed) = <<>>
          THEN /\ last' = Ran("saveGroup", "name-required", 0, 0, 0, "none",
                              <<>>, settings.selOnly)
               /\ rows' \in {RowsAfterRejection(opener) : opener \in GroupOpeners}
               /\ UNCHANGED settings
          ELSE \E ticked \in SUBSET {settings.savedExpressions[i].name :
                                       i \in 1..Len(settings.savedExpressions)} :
                 LET items == TickedNames(settings.savedExpressions, ticked)
                     group == [name |-> Trim(typed), items |-> items]
                 IN  IF Len(items) = 0
                     THEN /\ last' = Ran("saveGroup", "no-items", 0, 0, 0, "none",
                                         <<>>, settings.selOnly)
                          /\ rows' \in {RowsAfterRejection(opener) :
                                          opener \in GroupOpeners}
                          /\ UNCHANGED settings
                     ELSE /\ Len(saveOrUpdateGroup(settings.savedGroups, group))
                               <= MaxGroups
                          /\ settings' = [settings EXCEPT !.savedGroups =
                                            saveOrUpdateGroup(@, group)]
                          /\ rows' \in {RowsAfterSave(opener, settings'.savedGroups) :
                                          opener \in GroupOpeners}
                          /\ last' = Ran("saveGroup", "saved", 0, 0, 0, "none",
                                         <<>>, settings.selOnly)
    /\ UNCHANGED <<doc, sel, dlg, pv, view>>

\* settings tab, the Delete button of a row, which ends with display()
DeleteGroup ==
    /\ ~dlg
    /\ \E i \in 1..Len(rows) :
          /\ settings' = [settings EXCEPT !.savedGroups =
                            deleteGroupByName(@, rows[i].name)]
          /\ rows' = deleteGroupByName(settings.savedGroups, rows[i].name)
    /\ last' = Ran("deleteGroup", "deleted", 0, 0, 0, "none", <<>>, settings.selOnly)
    /\ UNCHANGED <<doc, sel, dlg, pv, view>>

\* the preview is recomputed from the component values d
Previewed(d) ==
    \E out \in {WithFields(updatePreview(d), d)} :
        /\ pv' = out.pv
        /\ view' = out.view
        /\ last' = out.run
        /\ UNCHANGED <<settings, doc, sel>>

\* command "regex find/replace": onOpen, which ends with a preview
OpenDialog ==
    /\ ~dlg
    /\ dlg' = TRUE
    /\ rows' = settings.savedGroups
    /\ Previewed(OpenedFields)

\* the user edits the find field or flips a toggle: updatePreview
ChangeField ==
    /\ dlg
    /\ dlg' = dlg
    /\ \E d \in Fields : Previewed(d)
    /\ UNCHANGED rows

\* Cancel: close, and onClose clears the highlights
Cancel ==
    /\ dlg
    /\ dlg' = FALSE
    /\ pv' = PvEmpty
    /\ view' = clearHighlights(view)
    /\ last' = Ran("cancel", "none", 0, 0, 0, "none", <<>>, settings.selOnly)
    /\ UNCHANGED <<settings, doc, sel, rows>>

\* a variant of SubmitWith that saves the components before it looks at the
\* find text
SubmitWithSavesFirst(d, typed) ==
    LET replaceString == ResolveReplace(typed, settings.processLineBreak,
                                        settings.processTab)
        saved         == [settings EXCEPT !.findText = d.find,
                                          !.replaceText = replaceString,
                                          !.useRegEx = d.useRegex,
                                          !.selOnly = d.selOnly]
    IN  IF d.find = <<>>
        THEN /\ last' = WithFields(Untouched(Ran("submit", "rejected", 0, 1, 0,
                                                 "none", <<>>, d.selOnly)), d).run
             /\ settings' = saved
             /\ UNCHANGED <<doc, sel, dlg, pv, view>>
        ELSE LET out == WithFields(SubmitReplace(d, replaceString), d)
             IN  /\ Leaves(out)
                 /\ IF out.run.status = "threw"
                    THEN UNCHANGED <<settings, dlg, pv, view>>
                    ELSE /\ settings' = saved
                         /\ dlg' = FALSE
                         /\ pv' = PvEmpty
                         /\ view' = clearHighlights(setHighlights(view, <<>>))

\* the submit handler with the component values d and the replace field typed
SubmitWith(d, typed) ==
    IF d.find = <<>>
    THEN /\ last' = WithFields(Untouched(Ran("submit", "rejected", 0, 1, 0,
                                             "none", <<>>, d.selOnly)), d).run
         /\ UNCHANGED <<settings, doc, sel, dlg, pv, view>>
    ELSE \E replaceString \in {ResolveReplace(typed, settings.processLineBreak,
                                                settings.processTab)} :
         \E out \in {WithFields(SubmitReplace(d, replaceString), d)} :
             /\ Leaves(out)
             /\ IF out.run.status = "threw"
                THEN UNCHANGED <<settings, dlg, pv, view>>
                ELSE /\ settings' = [settings EXCEPT
                                       !.findText = d.find,
                                       !.replaceText = replaceString,
                                       !.useRegEx = d.useRegex,
                                       !.selOnly = d.selOnly]
                     /\ dlg' = FALSE
                     /\ pv' = PvEmpty
                     /\ view' = clearHighlights(setHighlights(view, <<>>))

\* Replace All
Submit ==
    /\ dlg
    /\ \E d \in Fields \cup {OpenedFields}, typed \in ReplaceInputs :
          SubmitWith(d, typed)
    /\ UNCHANGED rows

\* settings tab: one of the three toggles is flipped and the settings saved
ToggleSetting ==
    /\ ~dlg
    /\ \E key \in {"caseInsensitive", "processLineBreak", "prefillFind"} :
          settings' = [settings EXCEPT ![key] = ~@]
    /\ last' = Ran("settingsToggle", "none", 0, 0, 0, "none", <<>>, settings.selOnly)
    /\ UNCHANGED <<doc, sel, dlg, pv, view, rows>>

\* Replace All with a replace text that holds a replacement pattern
SubmitPatternText ==
    /\ dlg
    /\ \E d \in Fields \cup {OpenedFields}, typed \in PatternTextInputs :
          SubmitWith(d, typed)
    /\ UNCHANGED rows

Next ==
    \/ Select
    \/ RunSavedExpression
    \/ RunBatch
    \/ RunSavedGroup
    \/ SaveExpression
    \/ DeleteExpression
    \/ SaveGroup
    \/ DeleteGroup
    \/ OpenDialog
    \/ ChangeField
    \/ Cancel
    \/ Submit
    \/ SubmitPatternText
    \/ ToggleSetting

Spec == Init /\ [][Next]_vars

\* the commands that work on the store: the dialogs that edit it and the
\* handlers that apply what it holds
NextStore ==
    \/ Select
    \/ RunSavedExpression
    \/ RunBatch
    \/ RunSavedGroup
    \/ SaveExpression
    \/ DeleteExpression
    \/ SaveGroup
    \/ DeleteGroup

SpecStore == Init /\ [][NextStore]_vars

NextDialog ==
    \/ Select
    \/ OpenDialog
    \/ Cancel
    \/ Submit
    \/ SubmitPatternText

SpecDialog == Init /\ [][NextDialog]_vars

\* a call of the plugin's ensureHighlightAttached
EnsureAttached ==
    /\ view' = ensureHighlightAttached(view)
    /\ last' = Ran("ensureHighlightAttached",
                   IF view.attached THEN "recorded" ELSE "appended", 0, 0, 0,
                   "none", <<>>, settings.selOnly)
    /\ UNCHANGED <<settings, doc, sel, dlg, pv, rows>>

\* a call of the plugin's detachHighlight
DetachHighlight ==
    /\ view' = detachHighlight(view)
    /\ last' = Ran("detachHighlight", "none", 0, 0, 0, "none", <<>>, settings.selOnly)
    /\ UNCHANGED <<settings, doc, sel, dlg, pv, rows>>

\* the calls that reach the editor view's highlight field: the dialog's
\* previews and its close, and the plugin's attach and detach methods
NextHighlight ==
    \/ Select
    \/ OpenDialog
    \/ ChangeField
    \/ Cancel
    \/ EnsureAttached
    \/ DetachHighlight
    \/ ToggleSetting

SpecHighlight == Init /\ [][NextHighlight]_vars

\* the plugin loaded with a last-used replace text and the two expansion
\* toggles as the settings tab left them
InitTemplate ==
    /\ \E tpl \in Templates, lb \in BOOLEAN, tb \in BOOLEAN :
          settings = [DEFAULT_SETTINGS EXCEPT !.replaceText = tpl,
                                              !.processLineBreak = lb,
                                              !.processTab = tb]
    /\ doc = foo
    /\ sel = [from |-> 0, to |-> 0]
    /\ dlg = FALSE
    /\ pv = PvEmpty
    /\ view = NoView
    /\ rows = settings.savedGroups
    /\ last = NoRun

\* Replace All with the replace field as onOpen restored it from the settings
SubmitRestored ==
    /\ dlg
    /\ \E d \in Fields \cup {OpenedFields} : SubmitWith(d, settings.replaceText)
    /\ UNCHANGED rows

\* the dialog opened and submitted with the replace text it was opened with
NextTemplate ==
    \/ OpenDialog
    \/ Cancel
    \/ SubmitRestored

SpecTemplate == InitTemplate /\ [][NextTemplate]_vars

\* longest buffer of the preview of long buffers
MaxItems == 203

\* a buffer of n letters o
OBuffer(n) == [i \in 1..n |-> "o"]

\* the find field holding "o", regex mode on, selection-only off
TypedO == [find |-> <<"o">>, useRegex |-> TRUE, selOnly |-> FALSE]

\* what the scan loop records for the pattern o on a buffer of n letters o: a
\* match of one character at every offset
ItemsAt(n) == [i \in 1..n |-> [from |-> i - 1, to |-> i, text |-> <<"o">>]]

\* updatePreview with the component values TypedO on a buffer of letters o:
\* the buffer is read, every character is a match, the ranges are dispatched
\* and the panel rendered
updatePreviewTypedO == updatePreviewRendered(TypedO, ItemsAt(Len(doc)), Len(doc))

\* the user types "o" in the find field over a buffer of letters o
PreviewLongBuffer ==
    /\ dlg
    /\ dlg' = dlg
    /\ doc = OBuffer(Len(doc))
    /\ pv' = updatePreviewTypedO.pv
    /\ view' = updatePreviewTypedO.view
    /\ last' = WithFields(updatePreviewTypedO, TypedO).run
    /\ UNCHANGED <<settings, doc, sel, rows>>

\* a fresh install on a buffer of up to MaxItems letters o
InitPanel ==
    /\ settings = DEFAULT_SETTINGS
    /\ doc \in {OBuffer(n) : n \in 0..MaxItems}
    /\ sel = [from |-> 0, to |-> 0]
    /\ dlg = FALSE
    /\ pv = PvEmpty
    /\ view = NoView
    /\ rows = settings.savedGroups
    /\ last = NoRun

\* the dialog's preview over buffers with more matches than the list shows
NextPanel ==
    \/ OpenDialog
    \/ PreviewLongBuffer
    \/ Cancel

SpecPanel == InitPanel /\ [][NextPanel]_vars

\* the handlers that transform or preview the buffer, over the store as loaded
NextTransform ==
    \/ Select
    \/ RunSavedExpression
    \/ RunBatch
    \/ RunSavedGroup
    \/ OpenDialog
    \/ ChangeField
    \/ Cancel
    \/ Submit

SpecTransform == Init /\ [][NextTransform]_vars

(***************************************************************************)
(* Properties.                                                             *)
(***************************************************************************)
\* the scope text the last handler found
ScopeBefore == IF last.selOnly THEN GetSelection(last.docBefore, last.selBefore)
               ELSE last.docBefore

\* the buffer after text is written back to the scope the last handler found
WrittenBack(text) ==
    IF last.selOnly THEN ReplaceSelectionDoc(last.docBefore, last.selBefore, text)
    ELSE text

BatchOps == {"applyBatch", "applyGroup"}

\* one expression applied to a text: the text it gives, the matches it replaces
OneText(e, text) ==
    RegexReplace(text, Regex(e.pattern, e.flags),
                 ResolveReplace(e.replace, settings.processLineBreak,
                                settings.processTab))

OneCount(e, text) == Len(Replaced(text, Regex(e.pattern, e.flags)))

\* the expressions applied one after the other, each to the previous one's output
RECURSIVE InOrderText(_, _)
InOrderText(exprs, text) ==
    IF exprs = <<>> THEN text
    ELSE InOrderText(Tail(exprs), OneText(Head(exprs), text))

RECURSIVE InOrderTotal(_, _)
InOrderTotal(exprs, text) ==
    IF exprs = <<>> THEN 0
    ELSE OneCount(Head(exprs), text)
         + InOrderTotal(Tail(exprs), OneText(Head(exprs), text))

ExprFooBar == [name |-> NameA, pattern |-> foo, flags |-> gm, replace |-> bar]

ExprBarBaz == [name |-> NameB, pattern |-> bar, flags |-> gm, replace |-> baz]

\* C1: a batch applies its expressions in list order, each to the output of the
\* previous one, and reports the sum of the match counts each one had on the
\* text it ran on; [foo->bar, bar->baz] on "foo" gives "baz" and 2, the
\* reverse list gives "bar" and 1.
C1_BatchInListOrder ==
    (last.op \in BatchOps /\ last.status = "applied") =>
        /\ doc = WrittenBack(InOrderText(last.exprs, ScopeBefore))
        /\ last.count = InOrderTotal(last.exprs, ScopeBefore)
        /\ (last.exprs = <<ExprFooBar, ExprBarBaz>> /\ ScopeBefore = foo)
              => (doc = WrittenBack(baz) /\ last.count = 2)
        /\ (last.exprs = <<ExprBarBaz, ExprFooBar>> /\ ScopeBefore = foo)
              => (doc = WrittenBack(bar) /\ last.count = 1)

\* the part of C1 that the code keeps: the text is the in-order composition
C1_TextInListOrder ==
    (last.op \in BatchOps /\ last.status = "applied") =>
        doc = WrittenBack(InOrderText(last.exprs, ScopeBefore))

\* whether a member of the list fails to compile
SomeInvalid(exprs) ==
    \E k \in 1..Len(exprs) : ~Compiles(exprs[k].pattern, exprs[k].flags)

\* C2: when a member of a batch (or of a group's resolved list) fails to
\* compile, the buffer and selection after the call are those before it and
\* no write was issued, whatever the earlier members had already computed.
C2_NoWriteOnCompileFailure ==
    (last.op \in BatchOps /\ SomeInvalid(last.exprs)) =>
        /\ doc = last.docBefore
        /\ sel = last.selBefore
        /\ last.writes = 0

\* a batch whose first member compiled and changed its text before a later
\* member failed to compile
C2_Witness ==
    /\ last.op \in BatchOps
    /\ Len(last.exprs) >= 2
    /\ Compiles(last.exprs[1].pattern, last.exprs[1].flags)
    /\ OneText(last.exprs[1], ScopeBefore) # ScopeBefore
    /\ ~Compiles(last.exprs[2].pattern, last.exprs[2].flags)
    /\ doc = last.docBefore

\* C3: on a non-empty text, the count a single replace-all reports
\* (applyExpression, or the dialog's Replace All in regex mode) is the number
\* of matches the scan loop enumerates with the same pattern and flags.
C3_CountIsScanCount ==
    /\ (last.op = "applyExpression" /\ last.status \in {"applied", "nomatch"}
        /\ ScopeBefore # <<>>) =>
          LET scan == ScanLoop(ScopeBefore,
                               Regex(last.exprs[1].pattern, last.exprs[1].flags),
                               0, ScanFuel)
          IN  ~scan.diverged /\ last.count = Len(scan.matches)
    /\ (last.op = "submit" /\ last.status \in {"replaced", "nomatch"}
        /\ last.fields.useRegex /\ ScopeBefore # <<>>) =>
          LET scan == ScanLoop(ScopeBefore, Regex(last.fields.find, regexFlags),
                               0, ScanFuel)
          IN  ~scan.diverged /\ last.count = Len(scan.matches)

\* the store's expressions named by items, in the order of items
RECURSIVE InItemsOrder(_, _)
InItemsOrder(items, exprs) ==
    IF items = <<>> THEN <<>>
    ELSE (IF FindIndexByName(exprs, Head(items)) > 0
          THEN <<exprs[FindIndexByName(exprs, Head(items))]>> ELSE <<>>)
         \o InItemsOrder(Tail(items), exprs)

\* C4: applyGroup applies the group's existing expressions in the order their
\* names have in the group's items list.
C4_GroupInItemsOrder ==
    (last.op = "applyGroup" /\ last.status = "applied") =>
        last.exprs = InItemsOrder(last.items, settings.savedExpressions)

\* the names of items that the store holds
Existing(items) ==
    {items[i] : i \in {j \in 1..Len(items) :
                         FindIndexByName(settings.savedExpressions, items[j]) > 0}}

\* C5: applying a group some of whose items no longer exist leaves the text
\* and reports the total that a batch of only the still-existing expressions
\* leaves and reports.
C5_DanglingGroupIsBatchOfExisting ==
    [][(last'.op = "applyGroup" /\ Existing(last'.items) # {}) =>
          \A batchOfExisting \in
                {applyBatch("applyGroup",
                    ExprsNamed(settings.savedExpressions,
                        TickedNames(settings.savedExpressions,
                                    Existing(last'.items))))} :
              /\ doc' = batchOfExisting.doc
              /\ sel' = batchOfExisting.sel
              /\ last'.status = batchOfExisting.run.status
              /\ last'.count = batchOfExisting.run.count]_vars

\* a group with one item missing and one present was applied and replaced
C5_Witness ==
    /\ last.op = "applyGroup"
    /\ last.status = "applied"
    /\ last.count > 0
    /\ Existing(last.items) # {}
    /\ \E i \in 1..Len(last.items) : last.items[i] \notin Existing(last.items)

\* C6: a group that resolves to no existing expression (every name missing,
\* or no items) gets the empty-group outcome, with no read and no write: the
\* buffer and the selection are unchanged.
C6_EmptyGroupTouchesNothing ==
    (last.op = "applyGroup" /\ Existing(last.items) = {}) =>
        /\ last.status = "empty-group"
        /\ last.reads = 0
        /\ last.writes = 0
        /\ doc = last.docBefore
        /\ sel = last.selBefore

\* a group whose items are all missing from the store was applied
C6_Witness ==
    /\ last.op = "applyGroup"
    /\ last.items # <<>>
    /\ Existing(last.items) = {}
    /\ settings.savedExpressions # <<>>

\* C7: every expression in the store has flags that contain "g".
C7_StoredFlagsGlobal ==
    \A i \in 1..Len(settings.savedExpressions) :
        Includes(settings.savedExpressions[i].flags, "g")

TransformOps == {"applyExpression", "applyBatch", "applyGroup", "submit"}

\* the transform invocations that got as far as their replacement pass
Transformed ==
    /\ last.op \in TransformOps
    /\ last.status \in {"applied", "nomatch", "replaced"}

\* whether the pattern matches somewhere in the text
HasMatch(text, p, flags) == Search(text, Regex(p, flags), 0).index >= 0

\* what a write to the selection leaves outside the selection
OutsideSelectionKept ==
    /\ Len(doc) >= last.selBefore.from + (Len(last.docBefore) - last.selBefore.to)
    /\ Slice(doc, 0, last.selBefore.from)
         = Slice(last.docBefore, 0, last.selBefore.from)
    /\ Slice(doc, Len(doc) - (Len(last.docBefore) - last.selBefore.to), Len(doc))
         = Slice(last.docBefore, last.selBefore.to, Len(last.docBefore))

\* C8, as stated: every transform invocation issues exactly one read of the
\* scope text and exactly one write, to the document when selection-only mode
\* is off and to the selection when it is on, also with zero matches.
C8_OneReadOneWrite ==
    Transformed =>
        /\ last.reads = 1
        /\ last.writes = 1
        /\ last.target = ScopeName(last.selOnly)

\* the scope reads a transform invocation issues.  applyExpression compiles
\* before it reads; a batch or group with no member returns before it reads
\* and otherwise reads before it compiles; Replace All reads the selection
\* first, and in document mode the document too, once the find text is not
\* empty and, in regex mode, has compiled
ExpectedReads ==
    IF last.op = "applyExpression"
    THEN IF SomeInvalid(last.exprs) THEN 0 ELSE 1
    ELSE IF last.op \in BatchOps
    THEN IF last.exprs = <<>> THEN 0 ELSE 1
    ELSE IF /\ ~last.selOnly
            /\ last.fields.find # <<>>
            /\ last.fields.useRegex => Compiles(last.fields.find, regexFlags)
         THEN 2 ELSE 1

\* the writes a transform invocation issues.  applyExpression and Replace All
\* in regex mode write if the pattern compiles and matches; a batch or group
\* writes if it has a member and every member compiles, also with zero
\* matches; Replace All in literal mode writes if the find text is not empty
ExpectedWrites ==
    IF last.op = "applyExpression"
    THEN IF /\ ~SomeInvalid(last.exprs)
            /\ HasMatch(ScopeBefore, last.exprs[1].pattern, last.exprs[1].flags)
         THEN 1 ELSE 0
    ELSE IF last.op \in BatchOps
    THEN IF last.exprs # <<>> /\ ~SomeInvalid(last.exprs) THEN 1 ELSE 0
    ELSE IF /\ last.fields.find # <<>>
            /\ last.fields.useRegex =>
                  /\ Compiles(last.fields.find, regexFlags)
                  /\ HasMatch(ScopeBefore, last.fields.find, regexFlags)
         THEN 1 ELSE 0

\* C8, as the code has it: every transform invocation writes at most once; a
\* write goes to the document in document mode and to the selection in
\* selection-only mode, where it leaves the text outside the selection; with
\* no write the buffer and the selection are unchanged.  A batch or group
\* with no member reads nothing and writes nothing; with members it reads the
\* scope once and writes once, also with zero matches, unless a member fails
\* to compile, and then it writes nothing.  applyExpression reads nothing and
\* writes nothing if its pattern fails to compile; otherwise it reads the
\* scope once, and writes once if the pattern matches and not at all if it
\* does not.  Replace All reads the selection; with an empty find text, or a
\* find text that fails to compile in regex mode, it reads nothing else and
\* writes nothing; otherwise it reads the document too in document mode, and
\* writes once in literal mode, and in regex mode once if the pattern matches
\* and not at all if it does not.
C8_AtMostOneWrite ==
    last.op \in TransformOps =>
        /\ last.reads = ExpectedReads
        /\ last.writes = ExpectedWrites
        /\ last.writes = 1 => last.target = ScopeName(last.selOnly)
        /\ (last.writes = 1 /\ last.selOnly) => OutsideSelectionKept
        /\ last.writes = 0 => (doc = last.docBefore /\ sel = last.selBefore)

\* a preset whose members all compile was applied to a scope where none of
\* them matches: one read, one write
C8_Witness ==
    /\ last.op = "applyGroup"
    /\ last.exprs # <<>>
    /\ ~SomeInvalid(last.exprs)
    /\ ScopeBefore # <<>>
    /\ last.count = 0
    /\ last.reads = 1
    /\ last.writes = 1
    /\ last.target = ScopeName(last.selOnly)

\* applyExpression ran a pattern that matches nowhere in a non-empty scope
\* and left the editor alone
C8_WitnessNoMatch ==
    /\ last.op = "applyExpression"
    /\ ~SomeInvalid(last.exprs)
    /\ ScopeBefore # <<>>
    /\ ~HasMatch(ScopeBefore, last.exprs[1].pattern, last.exprs[1].flags)
    /\ last.reads = 1
    /\ last.writes = 0

\* a preset with no existing member was run: no read, no write
C8_WitnessEmptyGroup ==
    /\ last.op = "applyGroup"
    /\ last.exprs = <<>>
    /\ last.reads = 0
    /\ last.writes = 0

\* a batch with no ticked expression was run: no read, no write
C8_WitnessEmptyBatch ==
    /\ last.op = "applyBatch"
    /\ last.exprs = <<>>
    /\ last.reads = 0
    /\ last.writes = 0

\* a preset with a member that fails to compile was run: one read, no write
C8_WitnessGroupThrew ==
    /\ last.op = "applyGroup"
    /\ SomeInvalid(last.exprs)
    /\ last.reads = 1
    /\ last.writes = 0

\* Replace All in document mode with a find text that fails to compile: the
\* selection was read, the document was not
C8_WitnessSubmitThrew ==
    /\ last.op = "submit"
    /\ ~last.selOnly
    /\ last.fields.useRegex
    /\ last.fields.find # <<>>
    /\ ~Compiles(last.fields.find, regexFlags)
    /\ last.reads = 1
    /\ last.writes = 0

\* Replace All in literal mode with an empty find text: the selection was
\* read, nothing was written
C8_WitnessEmptyFind ==
    /\ last.op = "submit"
    /\ ~last.fields.useRegex
    /\ last.fields.find = <<>>
    /\ last.reads = 1
    /\ last.writes = 0

\* C9: no transform handler ends with an exception leaving it: an invalid
\* pattern/flags pair met by Replace All, applyExpression, applyBatch or
\* applyGroup ends in a status outcome.
C9_NoErrorEscapes ==
    last.op \in TransformOps => last.status # "threw"

\* the component values with which a preview has nothing to scan
NothingToScan(d) ==
    d.find = <<>> \/ ~d.useRegex \/ ~Compiles(d.find, regexFlags)

\* C10: a preview recomputation with an empty pattern, with regex mode off or
\* with a pattern that fails to compile does not raise; it shows no range and
\* an empty match list, clears the highlights, and leaves the buffer, the
\* selection and the settings (the expression and group store) as they were.
C10_PreviewNeverRaises ==
    [][(last'.op = "updatePreview" /\ NothingToScan(last'.fields)) =>
          /\ last'.status \in {"cleared", "invalid"}
          /\ last'.count = 0
          /\ pv'.list = <<>>
          /\ pv'.more = 0
          /\ pv'.info <= 0
          /\ view'.dispatched = <<>>
          /\ view'.decorations = <<>>
          /\ doc' = doc
          /\ sel' = sel
          /\ settings' = settings]_vars

\* a preview met a pattern that does not compile while highlights attached
\* to the view, and ended with the invalid state and no highlight
C10_Witness ==
    /\ last.op = "updatePreview"
    /\ last.fields.useRegex
    /\ last.fields.find # <<>>
    /\ ~Compiles(last.fields.find, regexFlags)
    /\ last.status = "invalid"
    /\ pv.info = -1
    /\ view.attached
    /\ view.dispatched = <<>>

\* on the buffers short enough to scan, updatePreviewTypedO is what
\* updatePreview gives for TypedO
TypedOAsScanned ==
    (doc = OBuffer(Len(doc)) /\ Len(doc) <= MaxLen) =>
        updatePreview(TypedO) = updatePreviewTypedO

\* a preview of n matches on a long buffer dispatches all n ranges and says
\* n in the count line; its list holds the first PreviewLimit of them and the
\* omission notice says n - PreviewLimit when that is positive
C11_ListCapped ==
    (last.op = "updatePreview" /\ last.status = "shown" /\ last.fields = TypedO) =>
        LET n == Len(doc)
        IN  /\ view.dispatched = [i \in 1..n |-> [from |-> i - 1, to |-> i]]
            /\ pv.info = n
            /\ pv.list = ItemsAt(Min(n, PreviewLimit))
            /\ pv.more = IF n > PreviewLimit THEN n - PreviewLimit ELSE 0

\* a preview that compiled its pattern and scanned the scope
PreviewShown == last.op = "updatePreview" /\ last.status = "shown"

\* every match of the preview's pattern in the scope it scanned, empty
\* matches included, as text.match collects them with the same flags
MatchesFound == AllMatches(ScopeBefore, Regex(last.fields.find, regexFlags), 0)

\* the offset of the scanned scope in the buffer
ScopeOffset == IF last.selOnly THEN last.selBefore.from ELSE 0

\* the range a match has in the buffer
RangeOf(m) == [from |-> ScopeOffset + m.index, to |-> ScopeOffset + m.end]

\* the matches that are not empty, in order
RECURSIVE NonEmpty(_)
NonEmpty(ms) ==
    IF ms = <<>> THEN <<>>
    ELSE (IF Head(ms).end > Head(ms).index THEN <<Head(ms)>> ELSE <<>>)
         \o NonEmpty(Tail(ms))

\* the panel and the highlights for the matches ms: every range, the count
\* line, the first PreviewLimit list entries, the number of omitted entries
ShowsAll(ms) ==
    /\ view.dispatched = [i \in 1..Len(ms) |-> RangeOf(ms[i])]
    /\ pv.info = Len(ms)
    /\ Len(pv.list) = Min(Len(ms), PreviewLimit)
    /\ \A i \in 1..Len(pv.list) :
          /\ pv.list[i].from = RangeOf(ms[i]).from
          /\ pv.list[i].to = RangeOf(ms[i]).to
          /\ pv.list[i].text = Slice(ScopeBefore, ms[i].index, ms[i].end)
    /\ pv.more = IF Len(ms) > PreviewLimit THEN Len(ms) - PreviewLimit ELSE 0

\* C11: a preview highlights and counts all n matches found, untruncated;
\* its list holds the first min(n, 200) of them in scan order, the omission
\* notice says n - 200 when n > 200 and is absent when n <= 200.
C11_AllMatchesShown == PreviewShown => ShowsAll(MatchesFound)

\* the part of C11 that the code keeps: the same with n the number of
\* matches that are not empty
C11_NonEmptyMatchesShown == PreviewShown => ShowsAll(NonEmpty(MatchesFound))

\* C17: the scan loop terminates on every pattern and every text of length
\* L, patterns matching the empty string at every position included, after
\* at most L + 1 match steps.
C17_ScanTerminates ==
    PreviewShown =>
        LET scan == ScanLoop(ScopeBefore, Regex(last.fields.find, regexFlags), 0,
                             ScanFuel)
        IN  /\ ~scan.diverged
            /\ Len(scan.matches) <= Len(ScopeBefore) + 1
            /\ last.count = Len(scan.matches)

\* a preview scanned a non-empty scope with a pattern that matches the empty
\* string at every position, in exactly L + 1 steps
C17_Witness ==
    /\ PreviewShown
    /\ ScopeBefore # <<>>
    /\ \A i \in 0..Len(ScopeBefore) :
          MatchFrom(ScopeBefore, i, Regex(last.fields.find, regexFlags), 1) >= i
    /\ last.count = Len(ScopeBefore) + 1

\* C18: the sequence a scan produces is left to right and non-overlapping,
\* and holds every match of the pattern, each empty match exactly once at
\* its position.
C18_ZeroLengthOnce ==
    PreviewShown =>
        /\ view.dispatched = [i \in 1..Len(MatchesFound) |-> RangeOf(MatchesFound[i])]
        /\ \A i \in 1..Len(view.dispatched) :
              /\ view.dispatched[i].from <= view.dispatched[i].to
              /\ i > 1 => view.dispatched[i - 1].to <= view.dispatched[i].from

\* the part of C18 that the code keeps: the sequence is left to right and
\* non-overlapping, and the loop visits every match, empty ones included,
\* exactly once
C18_VisitedOnce ==
    PreviewShown =>
        /\ ScanLoop(ScopeBefore, Regex(last.fields.find, regexFlags), 0,
                    ScanFuel).matches = MatchesFound
        /\ \A i \in 1..Len(view.dispatched) :
              /\ view.dispatched[i].from < view.dispatched[i].to
              /\ i > 1 => view.dispatched[i - 1].to <= view.dispatched[i].from

\* the text from offset pos on with every non-overlapping occurrence of
\* find, taken left to right, replaced by rep as it stands
RECURSIVE OccurrencesReplaced(_, _, _, _)
OccurrencesReplaced(t, find, rep, pos) ==
    IF pos + Len(find) > Len(t) THEN Slice(t, pos, Len(t))
    ELSE IF Slice(t, pos, pos + Len(find)) = find
         THEN rep \o OccurrencesReplaced(t, find, rep, pos + Len(find))
         ELSE <<t[pos + 1]>> \o OccurrencesReplaced(t, find, rep, pos + 1)

\* the number of those occurrences
RECURSIVE Occurrences(_, _, _)
Occurrences(t, find, pos) ==
    IF pos + Len(find) > Len(t) THEN 0
    ELSE IF Slice(t, pos, pos + Len(find)) = find
         THEN 1 + Occurrences(t, find, pos + Len(find))
         ELSE Occurrences(t, find, pos + 1)

\* Replace All ran in literal mode with a find text
LiteralSubmit ==
    last.op = "submit" /\ ~last.fields.useRegex /\ last.fields.find # <<>>

\* C12: in literal mode the find text is a plain substring: every
\* non-overlapping occurrence, left to right, is replaced by the replacement
\* text as it stands, the count reported is the number of occurrences (the
\* split pieces minus one), and the operation does not fail whatever the find
\* text holds; "a.b" on "a.b a.b" with "X" gives "X X" and 2.
C12_LiteralMode ==
    LiteralSubmit =>
        /\ last.status = "replaced"
        /\ last.writes = 1
        /\ doc = WrittenBack(OccurrencesReplaced(ScopeBefore, last.fields.find,
                                                 settings.replaceText, 0))
        /\ last.count = Occurrences(ScopeBefore, last.fields.find, 0)
        /\ (last.fields.find = <<"a", ".", "b">>
            /\ ScopeBefore = <<"a", ".", "b", " ", "a", ".", "b">>
            /\ settings.replaceText = <<"X">>)
              => (doc = WrittenBack(<<"X", " ", "X">>) /\ last.count = 2)

\* literal Replace All of "a.b" by "X" ran on "a.b a.b"
C12_Witness ==
    /\ LiteralSubmit
    /\ last.fields.find = <<"a", ".", "b">>
    /\ ScopeBefore = <<"a", ".", "b", " ", "a", ".", "b">>
    /\ settings.replaceText = <<"X">>
    /\ doc = <<"X", " ", "X">>
    /\ last.count = 2

\* literal Replace All found its text and inserted a replace text that a
\* regex replacement would have expanded
C12_WitnessVerbatim ==
    /\ LiteralSubmit
    /\ settings.replaceText = <<"$", "&">>
    /\ last.count > 0

\* C13: Replace All with an empty find text is rejected before anything is
\* compiled: the buffer and the selection are unchanged, no write is issued,
\* and the saved find text, replace text and toggles are unchanged.
C13_EmptyFindRejected ==
    [][(last'.op = "submit" /\ last'.fields.find = <<>>) =>
          /\ last'.status = "rejected"
          /\ last'.writes = 0
          /\ doc' = doc
          /\ sel' = sel
          /\ settings' = settings
          /\ dlg' = dlg]_vars

\* Replace All was rejected in regex mode, in a dialog opened after an
\* earlier Replace All had saved its find text
C13_Witness ==
    /\ last.op = "submit"
    /\ last.status = "rejected"
    /\ last.fields.find = <<>>
    /\ last.fields.useRegex
    /\ settings.findText # <<>>
    /\ dlg

\* a name with a character that is not white space
HasName(name) == \E i \in 1..Len(name) : name[i] \notin {" ", "\n", "\t"}

\* the names the store holds
StoredNames(st) ==
    {st.savedExpressions[i].name : i \in 1..Len(st.savedExpressions)}
    \cup {st.savedGroups[i].name : i \in 1..Len(st.savedGroups)}

\* C14: a save of an expression or a group whose name is empty after trimming
\* is rejected and leaves the store as it was; after any sequence of saves
\* and deletes no stored expression and no stored group has an empty name.
C14_EmptyNameRejected ==
    [][/\ last'.status = "name-required" => settings' = settings
       /\ (last'.op = "saveExpression" /\ last'.status = "saved")
             => /\ HasName(last'.exprs[1].name)
                /\ last'.exprs[1].name \in StoredNames(settings')
       /\ \A name \in StoredNames(settings') : HasName(name)]_vars

\* the save of an expression with a blank name was rejected, the store
\* holding other expressions
C14_Witness ==
    /\ last.op = "saveExpression"
    /\ last.status = "name-required"
    /\ settings.savedExpressions # <<>>
    /\ \A name \in StoredNames(settings) : HasName(name)

\* the save of a group with no name was rejected
C14_WitnessGroup ==
    /\ last.op = "saveGroup"
    /\ last.status = "name-required"
    /\ settings.savedExpressions # <<>>

\* C15: deleting an expression leaves every saved group as it was, the
\* groups that name it included; the name stays in the group and is applied
\* again once an expression of that name is in the store.
C15_DeleteKeepsGroups ==
    [][/\ last'.op = "deleteExpression" =>
             /\ settings'.savedGroups = settings.savedGroups
             /\ FindIndexByName(settings'.savedExpressions, last'.exprs[1].name) = 0
       /\ last'.op = "applyGroup" =>
             {last'.exprs[k].name : k \in 1..Len(last'.exprs)} = Existing(last'.items)]_vars

\* a group was applied whose store order is no longer the order of its
\* items: one of its expressions was deleted and saved again after the group
\* was saved, and the group applied it
C15_Witness ==
    /\ last.op = "applyGroup"
    /\ last.status = "applied"
    /\ last.count > 0
    /\ Len(last.items) = 2
    /\ Len(last.exprs) = 2
    /\ last.exprs[1].name = last.items[2]
    /\ last.exprs[2].name = last.items[1]

\* an expression was deleted and a group still names it
C15_WitnessDangling ==
    /\ last.op = "deleteExpression"
    /\ \E g \in 1..Len(settings.savedGroups) :
          Includes(settings.savedGroups[g].items, last.exprs[1].name)

\* the names in a collection are pairwise distinct
DistinctNames(c) == \A i, j \in 1..Len(c) : c[i].name = c[j].name => i = j

\* new is old after an upsert of an entry called name: the entry of that name
\* replaced where it was, every other entry and the length kept, or, the
\* name being absent, the entry appended at the end
Upserted(old, new, name) ==
    IF \E i \in 1..Len(old) : old[i].name = name
    THEN /\ Len(new) = Len(old)
         /\ \A j \in 1..Len(old) :
               IF old[j].name = name THEN new[j].name = name ELSE new[j] = old[j]
    ELSE /\ Len(new) = Len(old) + 1
         /\ SubSeq(new, 1, Len(old)) = old
         /\ new[Len(new)].name = name

\* C16: after any sequence of upserts and deletes the names of the stored
\* expressions are pairwise distinct, and so are the names of the stored
\* groups; an upsert of an existing name replaces the entry at its index and
\* keeps the length and every other entry, an upsert of an absent name
\* appends at the end.
C16_UniqueNamesUpsert ==
    [][/\ DistinctNames(settings'.savedExpressions)
       /\ DistinctNames(settings'.savedGroups)
       /\ (last'.op = "saveExpression" /\ last'.status = "saved") =>
             /\ Upserted(settings.savedExpressions, settings'.savedExpressions,
                         last'.exprs[1].name)
             /\ \E i \in 1..Len(settings'.savedExpressions) :
                   settings'.savedExpressions[i] = last'.exprs[1]
             /\ settings'.savedGroups = settings.savedGroups
       /\ (last'.op = "saveGroup" /\ last'.status = "saved") =>
             /\ \E g \in 1..Len(settings'.savedGroups) :
                   Upserted(settings.savedGroups, settings'.savedGroups,
                            settings'.savedGroups[g].name)
             /\ settings'.savedExpressions = settings.savedExpressions]_vars

\* an expression was saved under the name of the first of two stored
\* expressions and took its place, the second one staying where it was
C16_Witness ==
    /\ last.op = "saveExpression"
    /\ last.status = "saved"
    /\ Len(settings.savedExpressions) = 2
    /\ settings.savedExpressions[1] = last.exprs[1]
    /\ settings.savedExpressions[1].pattern = <<"o", "*">>
    /\ settings.savedExpressions[2].name # last.exprs[1].name

\* two groups are stored
C16_WitnessGroups == Len(settings.savedGroups) = 2 /\ last.op = "saveGroup"

\* C19: attaching the highlight field is idempotent per view: over any
\* sequence of ensureHighlightAttached, setHighlights, clearHighlights and
\* detachHighlight calls the field is appended to the view's configuration
\* only when the view is not recorded as attached, so the configuration holds
\* it at most once, and a call on a recorded view appends nothing.
C19_AttachIdempotent ==
    [][/\ view'.appended <= 1
       /\ view'.attached <=> view'.appended = 1
       /\ (view.attached /\ view'.attached) => view'.appended = view.appended
       /\ view'.appended > view.appended => ~view.attached]_vars

\* ensureHighlightAttached was called on a view recorded as attached, whose
\* configuration holds the field once
C19_Witness ==
    /\ last.op = "ensureHighlightAttached"
    /\ last.status = "recorded"
    /\ view.attached
    /\ view.appended = 1

\* the places where a backslash is followed by the letter
Pairs(tpl, letter) ==
    {i \in 1..(Len(tpl) - 1) : tpl[i] = "\\" /\ tpl[i + 1] = letter}

\* how often the character occurs
Count(tpl, ch) == Cardinality({i \in 1..Len(tpl) : tpl[i] = ch})

\* C20: with line-break expansion on, the resolved replace text holds no
\* backslash followed by n, each such pair having become one line-break
\* character; with both expansions on the result is the same whichever of
\* the two substitutions runs first; resolving a resolved text changes
\* nothing.
C20_EscapeExpansion ==
    [][(last'.op = "submit" /\ last'.status \notin {"rejected", "threw"}) =>
          LET tpl == settings.replaceText
              out == settings'.replaceText
              lb  == settings.processLineBreak
              tb  == settings.processTab
          IN  /\ lb => /\ Pairs(out, "n") = {}
                       /\ Count(out, "\n") = Count(tpl, "\n") + Cardinality(Pairs(tpl, "n"))
                       /\ Len(out) = Len(tpl) - Cardinality(Pairs(tpl, "n"))
                                     - (IF tb THEN Cardinality(Pairs(tpl, "t")) ELSE 0)
              /\ (lb /\ tb) =>
                    out = ExpandEscape(ExpandEscape(tpl, "t", "\t"), "n", "\n")
              /\ (~lb /\ ~tb) => out = tpl
              /\ ResolveReplace(out, lb, tb) = out]_vars

\* Replace All, both expansions on, resolved a replace text of a
\* backslash-n pair and a backslash-t pair and wrote the line break and the
\* tab in place of "foo"
C20_Witness ==
    /\ last.op = "submit"
    /\ last.status = "replaced"
    /\ last.count = 1
    /\ settings.processLineBreak
    /\ settings.processTab
    /\ settings.replaceText = <<"\n", "\t">>
    /\ doc = <<"\n", "\t">>

\* Replace All resolved a replace text with two backslash-n pairs
C20_WitnessTwoPairs ==
    /\ last.op = "submit"
    /\ settings.processLineBreak
    /\ settings.replaceText = <<"\n", "\n">>

====
